---- MODULE Spec2Model ----
(***************************************************************************)
(* ncdlib: the Normalized Compression Distance of two files, computed by   *)
(* running external compressors on temporary copies (src/ncdlib.py).       *)
(*                                                                         *)
(* The state is the host (installed tools, filesystem) and the position    *)
(* and locals of one compute_ncd call.  The external compressor is the     *)
(* environment: each invocation draws an outcome (exit status, whether the *)
(* working copy survives, the output file and its size).                   *)
(***************************************************************************)
EXTENDS Integers, Sequences, FiniteSets, TLC

VARIABLES
    installed,          \* executables `which` finds on the host
    fs,                 \* filesystem: path -> content (a sequence of bytes)
    deterministic,      \* the compressors' result is a function of (family, content)
    memo,               \* results the deterministic compressors have shown so far
    prev,               \* the previous call of this behaviour: its arguments and result
    pc,                 \* position of the running compute_ncd call
    args,               \* compute_ncd's arguments
    compressor_binary,  \* compute_ncd: the dictionary available_compressors() returned
    best,               \* compute_ncd: <<cx, cy, cxy, cyx>>
    todo,               \* compute_ncd: families the for loop has still to visit
    cur,                \* _compressed_values: compressor_name
    vals,               \* _compressed_values: <<cx, cy, cxy, cyx>>
    i,                  \* _compressed_values: the measurement in progress, 1..4
    input_xy,           \* _compressed_values: path of the concatenation x+y
    input_yx,           \* _compressed_values: path of the concatenation y+x
    tmp_path,           \* _compress: path of the working copy
    ret,                \* the tuple _compressed_values returned
    result,             \* how the call ended: a returned value or a raised exception
    base,               \* history: the filesystem when the call started
    made,               \* history: temporary files the call created (mkstemp calls)
    runs,               \* history: compressor invocations of the call
    failed,             \* history: families with a failed compressor invocation in the call
    measured            \* history: family -> the four sizes its tool produced in the call

vars == <<installed, fs, deterministic, memo, prev, pc, args, compressor_binary,
          best, todo, cur, vals, i, input_xy, input_yx, tmp_path, ret, result,
          base, made, runs, failed, measured>>

(***************************************************************************)
(* Bounds and program constants.                                           *)
(***************************************************************************)
\* the largest compressed size a compressor reports
MaxSize == 1

\* compute_ncd's "worst possible values": 10 times the raw size
WorstFactor == 10

\* Python's None where a size is expected, and where a name is expected
Absent == -1
NONE == "None"

NoPath == <<"", 0, "">>

\* the caller's files: an empty file and two different one-byte files
InputFiles == { <<"in", 0, "">>, <<"in", 1, "">>, <<"in", 2, "">> }
InputContent(p) == IF p[2] = 0 THEN <<>> ELSE <<p[2]>>

\* the hosts: which of the registry's executables are installed
Hosts == { {}, {"gzip"}, {"lzip"}, {"plzip", "lzip"}, {"plzip", "lzip", "gzip"} }

\* the families a caller asks for
Requested == {"LZMA", "LZ77", "BZIP2"}

Sizes == 0..MaxSize

Min(a, b) == IF a <= b THEN a ELSE b
Max(a, b) == IF a >= b THEN a ELSE b

(***************************************************************************)
(* The compressor registry and the tool prober.                            *)
(***************************************************************************)
FamilyOrder == <<"LZMA", "BZIP2", "LZ77", "LZW", "PPMZ", "PPMD", "PAQ">>

Families == {FamilyOrder[k] : k \in 1..Len(FamilyOrder)}

KNOWN_COMPRESSORS(name) ==
    CASE name = "LZMA"  -> <<"plzip", "lzip">>
      [] name = "BZIP2" -> <<"bzip2">>
      [] name = "LZ77"  -> <<"gzip">>
      [] name = "LZW"   -> <<"compress">>
      [] name = "PPMZ"  -> <<"ppmz", "static-ppmz">>
      [] name = "PPMD"  -> <<"ppmd">>
      [] name = "PAQ"   -> <<"paq8l">>

_cmd_exists(host, cmd) == cmd \in host

\* positions of the candidates of a family that the prober finds
Found(host, name) ==
    {k \in 1..Len(KNOWN_COMPRESSORS(name)) : _cmd_exists(host, KNOWN_COMPRESSORS(name)[k])}

\* a prober whose loop has no break: the last candidate found wins
FirstTool_last_found(host, name) ==
    KNOWN_COMPRESSORS(name)[CHOOSE k \in Found(host, name) :
                                \A j \in Found(host, name) : k >= j]

\* the first candidate found, in the registry's order
FirstTool(host, name) ==
    KNOWN_COMPRESSORS(name)[CHOOSE k \in Found(host, name) :
                                \A j \in Found(host, name) : k <= j]

available_compressors(host) ==
    [name \in {n \in Families : Found(host, n) # {}} |-> FirstTool(host, name)]

\* the keys of a dictionary in insertion order (the registry's order)
RECURSIVE KeysFrom(_, _)
KeysFrom(d, k) ==
    IF k > Len(FamilyOrder) THEN <<>>
    ELSE (IF FamilyOrder[k] \in DOMAIN d THEN <<FamilyOrder[k]>> ELSE <<>>)
         \o KeysFrom(d, k + 1)

Keys(d) == KeysFrom(d, 1)

\* the suffix of the file a family's tool writes
Suffix(name) ==
    CASE name = "LZMA"  -> ".lz"
      [] name = "BZIP2" -> ".bz2"
      [] name = "LZ77"  -> ".gz"
      [] name = "LZW"   -> ".Z"
      [] name = "PPMZ"  -> ".ppmz"
      [] name = "PPMD"  -> ".ppmd"
      [] name = "PAQ"   -> ".paq8l"

(***************************************************************************)
(* The filesystem.                                                         *)
(***************************************************************************)
Exists(f, p) == p \in DOMAIN f

WriteFile(f, p, data) == [q \in (DOMAIN f) \cup {p} |-> IF q = p THEN data ELSE f[q]]

RemoveFile(f, p) == [q \in (DOMAIN f) \ {p} |-> f[q]]

TmpFiles(f) == {p \in DOMAIN f : p[1] = "tmp"}

\* tempfile.mkstemp: a name no file of the directory has
mkstemp(f) ==
    <<"tmp",
      CHOOSE n \in 0..Cardinality(DOMAIN f) :
          /\ ~Exists(f, <<"tmp", n, "">>)
          /\ \A m \in 0..(n - 1) : Exists(f, <<"tmp", m, "">>),
      "">>

\* os.stat(p).st_size
st_size(f, p) == Len(f[p])

\* a compressed file of the given size
Blob(size) == [k \in 1..size |-> 0]

InitFS == [p \in InputFiles |-> InputContent(p)]

(***************************************************************************)
(* The external compressor (the environment) and the measurer.             *)
(***************************************************************************)
\* what one invocation of a compressor does: its exit status, whether the
\* working copy is still there afterwards, and the size of the output file it
\* leaves (Absent: none)
Outcomes == [exit : {0, 1}, keep : BOOLEAN, out : {Absent} \cup Sizes]

\* the compressed size an invocation produced, Absent when it failed
Measured(o) == IF o.exit = 0 /\ o.out # Absent THEN o.out ELSE Absent

\* subprocess.check_output(cmd): the tool's effect on the directory
RunTool(f, copy, output, o) ==
    LET f1 == IF o.keep THEN f ELSE RemoveFile(f, copy)
    IN  IF o.out # Absent THEN WriteFile(f1, output, Blob(o.out)) ELSE f1

\* a _compress_any that does not look at the exit status
_compress_any_ignores_exit(f, exit, output) == [fs |-> f, path |-> output]

\* _compress_any after the tool ran: on a non-zero exit the output is removed
\* (a missing one ignored) and None returned, otherwise the output's path
_compress_any(f, exit, output) ==
    IF exit # 0
    THEN [fs |-> IF Exists(f, output) THEN RemoveFile(f, output) ELSE f,
          path |-> NoPath]
    ELSE [fs |-> f, path |-> output]

\* _compress from the invocation on (the working copy tmp is in place):
\* the directory afterwards, the exception raised ("" for none), and the
\* value returned (a size, or Absent for None)
_compress(f, tmp, name, o) ==
    LET output == <<"tmp", tmp[2], Suffix(name)>>
        r == _compress_any(RunTool(f, tmp, output, o), o.exit, output)
    IN  IF r.path # NoPath
        THEN IF ~Exists(r.fs, r.path)
             THEN [fs |-> r.fs, exc |-> "FileNotFoundError", size |-> Absent]
             ELSE LET f2 == RemoveFile(r.fs, r.path)
                  IN  [fs |-> IF Exists(f2, tmp) THEN RemoveFile(f2, tmp) ELSE f2,
                       exc |-> "",
                       size |-> st_size(r.fs, r.path)]
        ELSE IF ~Exists(r.fs, tmp)
             THEN [fs |-> r.fs, exc |-> "FileNotFoundError", size |-> Absent]
             ELSE [fs |-> RemoveFile(r.fs, tmp), exc |-> "", size |-> Absent]

(***************************************************************************)
(* The calculator's pure parts.                                            *)
(***************************************************************************)
NoVals == <<Absent, Absent, Absent, Absent>>

\* _compressed_values' return value: the four sizes iff none is None
ValuesTuple(v) ==
    IF \A k \in 1..4 : v[k] # Absent THEN v ELSE <<Absent, Absent, Absent>>

\* compute_ncd's worst possible values for raw sizes sx and sy
WorstValues(sx, sy) ==
    <<WorstFactor * sx, WorstFactor * sy,
      WorstFactor * sx + WorstFactor * sy, WorstFactor * sx + WorstFactor * sy>>

\* a lookup that never raises (compressor_binary.get(compressor))
HasBinding_unchecked(cb, compressor) == TRUE

\* a loop that keeps the whole tuple of the family with the smaller C(x)
Smaller_whole_tuple(b, r) == IF r[1] < b[1] THEN r ELSE b

\* the loop's cx = min(cx, ncx) ... cyx = min(cyx, ncyx)
Smaller(b, r) == [k \in 1..4 |-> Min(b[k], r[k])]

\* compressor_binary[compressor] raises KeyError unless the key is there
HasBinding(cb, compressor) == compressor \in DOMAIN cb

RECURSIVE GCD(_, _)
GCD(a, b) == IF b = 0 THEN a ELSE GCD(b, a % b)

Abs(a) == IF a < 0 THEN 0 - a ELSE a

\* a division that answers 0 for a zero denominator
Div_zero_as_zero(n, m) ==
    IF m = 0
    THEN [exc |-> "", q |-> <<0, 1>>]
    ELSE [exc |-> "", q |-> <<n \div GCD(Abs(n), m), m \div GCD(Abs(n), m)>>]

\* Python's n / m for integers with m >= 0: the quotient as a fraction in
\* lowest terms, or ZeroDivisionError
Div(n, m) ==
    IF m = 0
    THEN [exc |-> "ZeroDivisionError", q |-> <<>>]
    ELSE [exc |-> "", q |-> <<n \div GCD(Abs(n), m), m \div GCD(Abs(n), m)>>]

\* a distance that takes the larger concatenation
Distance_max_numerator(b) == Div(Max(b[3], b[4]) - Min(b[1], b[2]), Max(b[1], b[2]))

\* a distance that looks at one concatenation order only
Distance_xy_only(b) == Div(b[3] - Min(b[1], b[2]), Max(b[1], b[2]))

\* d = (min(cxy, cyx) - min(cx, cy)) / max(cx, cy)
Distance(b) == Div(Min(b[3], b[4]) - Min(b[1], b[2]), Max(b[1], b[2]))

NoArgs == [input_x |-> NoPath, input_y |-> NoPath, compressor |-> NONE, verbose |-> FALSE]

NoResult == [status |-> "none", exc |-> "", sizes |-> <<>>, d |-> <<>>]

Raised(e) == [status |-> "raised", exc |-> e, sizes |-> <<>>, d |-> <<>>]

\* the return statement: d alone, or the tuple (cx, cy, cxy, cyx, d)
Returned(verbose, b, q) ==
    [status |-> "returned", exc |-> "", sizes |-> IF verbose THEN b ELSE <<>>, d |-> q]

NoPrev == [args |-> NoArgs, result |-> NoResult]

(***************************************************************************)
(* The state machine of a compute_ncd call.                                *)
(***************************************************************************)
Init ==
    /\ installed \in Hosts
    /\ fs = InitFS
    /\ deterministic = FALSE
    /\ memo = <<>>
    /\ prev = NoPrev
    /\ pc = "idle"
    /\ args = NoArgs
    /\ compressor_binary = <<>>
    /\ best = NoVals
    /\ todo = <<>>
    /\ cur = NONE
    /\ vals = NoVals
    /\ i = 1
    /\ input_xy = NoPath
    /\ input_yx = NoPath
    /\ tmp_path = NoPath
    /\ ret = <<>>
    /\ result = NoResult
    /\ base = InitFS
    /\ made = 0
    /\ runs = 0
    /\ failed = {}
    /\ measured = <<>>

\* compute_ncd up to the first measurement: the probe of the host, then the
\* lookup of the requested family or the worst possible values
Enter(x, y, compressor, verbose) ==
    LET cb == available_compressors(installed)
        found == compressor = NONE \/ HasBinding(cb, compressor)
    IN  /\ args' = [input_x |-> x, input_y |-> y,
                    compressor |-> compressor, verbose |-> verbose]
        /\ compressor_binary' = cb
        /\ base' = fs
        /\ made' = 0
        /\ runs' = 0
        /\ failed' = {}
        /\ measured' = <<>>
        /\ ret' = <<>>
        /\ vals' = NoVals
        /\ i' = 1
        /\ input_xy' = NoPath
        /\ input_yx' = NoPath
        /\ tmp_path' = NoPath
        /\ todo' = IF compressor = NONE THEN Keys(cb) ELSE <<>>
        /\ cur' = IF compressor # NONE /\ found THEN compressor ELSE NONE
        /\ best' = IF compressor = NONE
                   THEN WorstValues(st_size(fs, x), st_size(fs, y))
                   ELSE NoVals
        /\ result' = IF found THEN NoResult ELSE Raised("KeyError")
        /\ pc' = IF ~found THEN "done"
                 ELSE IF compressor = NONE THEN "loop" ELSE "compress"
        /\ UNCHANGED <<installed, fs, deterministic, memo>>

compute_ncd ==
    /\ pc = "idle"
    /\ \E x \in InputFiles, y \in InputFiles, verbose \in BOOLEAN :
       \E compressor \in {NONE} \cup Requested :
           Enter(x, y, compressor, verbose)
    /\ UNCHANGED prev

\* for c in compressor_binary
for_loop ==
    /\ pc = "loop"
    /\ IF todo = <<>>
       THEN /\ pc' = "distance"
            /\ UNCHANGED <<cur, todo, vals, i, input_xy, input_yx>>
       ELSE /\ pc' = "compress"
            /\ cur' = Head(todo)
            /\ todo' = Tail(todo)
            /\ vals' = NoVals
            /\ i' = 1
            /\ input_xy' = NoPath
            /\ input_yx' = NoPath
    /\ UNCHANGED <<installed, fs, deterministic, memo, prev, args, compressor_binary,
                   best, tmp_path, ret, result, base, made, runs, failed, measured>>

\* the file the measurement in progress compresses
Infile ==
    CASE i = 1 -> args.input_x
      [] i = 2 -> args.input_y
      [] i = 3 -> input_xy
      [] i = 4 -> input_yx

\* _compress, first half: a new temporary file, the input copied into it
_compress_copy ==
    /\ pc = "compress"
    /\ tmp_path' = mkstemp(fs)
    /\ fs' = WriteFile(fs, mkstemp(fs), fs[Infile])
    /\ made' = made + 1
    /\ pc' = "run"
    /\ UNCHANGED <<installed, deterministic, memo, prev, args, compressor_binary, best,
                   todo, cur, vals, i, input_xy, input_yx, ret, result, base, runs,
                   failed, measured>>

\* the sizes produced so far, with the size of family name's measurement k
Noted(m, name, k, size) ==
    [n \in (DOMAIN m) \cup {name} |->
        IF n # name THEN m[n]
        ELSE [(IF name \in DOMAIN m THEN m[name] ELSE NoVals) EXCEPT ![k] = size]]

\* where _compressed_values goes after its measurement k
AfterMeasurement(k) == IF k = 1 THEN "compress" ELSE IF k = 4 THEN "remove" ELSE "concat"

\* _compress, second half: the compressor runs on the copy, then the size is
\* taken and the files removed
_compress_run ==
    /\ pc = "run"
    /\ \E o \in Outcomes :
       LET key == <<cur, fs[tmp_path]>>
           r == _compress(fs, tmp_path, cur, o)
       IN  /\ (deterministic /\ key \in DOMAIN memo) => Measured(o) = memo[key]
           /\ memo' = IF deterministic THEN WriteFile(memo, key, Measured(o)) ELSE memo
           /\ fs' = r.fs
           /\ runs' = runs + 1
           /\ failed' = IF Measured(o) = Absent THEN failed \cup {cur} ELSE failed
           /\ measured' = Noted(measured, cur, i, Measured(o))
           /\ IF r.exc # ""
              THEN /\ pc' = "done"
                   /\ result' = Raised(r.exc)
                   /\ UNCHANGED <<vals, i>>
              ELSE /\ pc' = AfterMeasurement(i)
                   /\ vals' = [vals EXCEPT ![i] = r.size]
                   /\ i' = IF i < 4 THEN i + 1 ELSE i
                   /\ UNCHANGED result
    /\ tmp_path' = NoPath
    /\ UNCHANGED <<installed, deterministic, prev, args, compressor_binary, best, todo,
                   cur, input_xy, input_yx, ret, base, made>>

\* _concat: a new temporary file holding file1 followed by file2
_concat ==
    /\ pc = "concat"
    /\ LET file1 == IF i = 3 THEN args.input_x ELSE args.input_y
           file2 == IF i = 3 THEN args.input_y ELSE args.input_x
       IN  fs' = WriteFile(fs, mkstemp(fs), fs[file1] \o fs[file2])
    /\ input_xy' = IF i = 3 THEN mkstemp(fs) ELSE input_xy
    /\ input_yx' = IF i = 4 THEN mkstemp(fs) ELSE input_yx
    /\ made' = made + 1
    /\ pc' = "compress"
    /\ UNCHANGED <<installed, deterministic, memo, prev, args, compressor_binary, best,
                   todo, cur, vals, i, tmp_path, ret, result, base, runs, failed, measured>>

\* the end of _compressed_values: the concatenations removed, the tuple returned
_compressed_values_return ==
    /\ pc = "remove"
    /\ fs' = RemoveFile(RemoveFile(fs, input_xy), input_yx)
    /\ ret' = ValuesTuple(vals)
    /\ pc' = "unpack"
    /\ UNCHANGED <<installed, deterministic, memo, prev, args, compressor_binary, best,
                   todo, cur, vals, i, input_xy, input_yx, tmp_path, result, base, made,
                   runs, failed, measured>>

\* compute_ncd takes the returned tuple apart; in the loop it keeps the smaller
\* of each component
unpack ==
    /\ pc = "unpack"
    /\ IF Len(ret) # 4
       THEN /\ pc' = "done"
            /\ result' = Raised("ValueError")
            /\ UNCHANGED best
       ELSE IF args.compressor # NONE
       THEN /\ pc' = "distance"
            /\ best' = ret
            /\ UNCHANGED result
       ELSE IF \E k \in 1..4 : ret[k] = Absent
       THEN /\ pc' = "done"
            /\ result' = Raised("TypeError")
            /\ UNCHANGED best
       ELSE /\ pc' = "loop"
            /\ best' = Smaller(best, ret)
            /\ UNCHANGED result
    /\ UNCHANGED <<installed, fs, deterministic, memo, prev, args, compressor_binary,
                   todo, cur, vals, i, input_xy, input_yx, tmp_path, ret, base, made,
                   runs, failed, measured>>

\* the distance and the return statement
distance ==
    /\ pc = "distance"
    /\ result' = IF \E k \in 1..4 : best[k] = Absent
                 THEN Raised("TypeError")
                 ELSE IF Distance(best).exc # ""
                 THEN Raised(Distance(best).exc)
                 ELSE Returned(args.verbose, best, Distance(best).q)
    /\ pc' = "done"
    /\ UNCHANGED <<installed, fs, deterministic, memo, prev, args, compressor_binary,
                   best, todo, cur, vals, i, input_xy, input_yx, tmp_path, ret, base,
                   made, runs, failed, measured>>

Next ==
    \/ compute_ncd
    \/ for_loop
    \/ _compress_copy
    \/ _compress_run
    \/ _concat
    \/ _compressed_values_return
    \/ unpack
    \/ distance

Spec == Init /\ [][Next]_vars

(***************************************************************************)
(* Two calls in a row against deterministic compressors: the second call   *)
(* has the first one's inputs swapped, or asks for another compressor.     *)
(***************************************************************************)
\* the hosts of the paired calls: at most one family has a tool
PairHosts == {h \in Hosts : Cardinality(DOMAIN available_compressors(h)) <= 1}

InitPair ==
    /\ installed \in PairHosts
    /\ fs = InitFS
    /\ deterministic = TRUE
    /\ memo = <<>>
    /\ prev = NoPrev
    /\ pc = "idle"
    /\ args = NoArgs
    /\ compressor_binary = <<>>
    /\ best = NoVals
    /\ todo = <<>>
    /\ cur = NONE
    /\ vals = NoVals
    /\ i = 1
    /\ input_xy = NoPath
    /\ input_yx = NoPath
    /\ tmp_path = NoPath
    /\ ret = <<>>
    /\ result = NoResult
    /\ base = InitFS
    /\ made = 0
    /\ runs = 0
    /\ failed = {}
    /\ measured = <<>>

compute_ncd_swapped ==
    /\ pc = "done"
    /\ prev = NoPrev
    /\ prev' = [args |-> args, result |-> result]
    /\ Enter(args.input_y, args.input_x, args.compressor, args.verbose)

compute_ncd_other ==
    /\ pc = "done"
    /\ prev = NoPrev
    /\ prev' = [args |-> args, result |-> result]
    /\ \E compressor \in ({NONE} \cup DOMAIN compressor_binary) \ {args.compressor} :
           Enter(args.input_x, args.input_y, compressor, args.verbose)

NextPair ==
    \/ Next
    \/ compute_ncd_swapped
    \/ compute_ncd_other

SpecPair == InitPair /\ [][NextPair]_vars

(***************************************************************************)
(* Properties.                                                             *)
(***************************************************************************)
Done == pc = "done"

BestOfAll == args.compressor = NONE

Single == args.compressor # NONE

Available == args.compressor \in DOMAIN compressor_binary

EmptyInputs == st_size(fs, args.input_x) = 0 /\ st_size(fs, args.input_y) = 0

NonEmptyInputs == st_size(fs, args.input_x) > 0 /\ st_size(fs, args.input_y) > 0

\* how a call ended, the kind of exception left aside
Outcome(r) == <<r.status, r.sizes, r.d>>

\* C1: in best-of-all mode, on non-empty inputs, a family whose compressor
\* failed on one of its four measurements (the measurer having reported that
\* as None) does not abort the call: the call returns a distance.
C1_FailedFamilyRecovered ==
    (Done /\ BestOfAll /\ NonEmptyInputs /\ failed # {}
     /\ result.exc # "FileNotFoundError")
        => result.status = "returned"

\* C2: in best-of-all mode with no available compressor the call ends in an
\* error before any measurement: no temporary file, no compressor invocation,
\* and no numeric distance.
C2_EmptySetFailsFast ==
    (Done /\ BestOfAll /\ DOMAIN compressor_binary = {})
        => (result.status = "raised" /\ made = 0 /\ runs = 0)

\* C3: when a call has finished, by a return or by an exception, no temporary
\* file it created is left in the working directory.
C3_NoTemporaryFileSurvives ==
    Done => (TmpFiles(fs) = TmpFiles(base))

\* C4: in single-compressor mode with an available family, a call in which a
\* measurement was absent ends in an error and hands back neither a distance
\* nor sizes; a distance is returned only after four successful measurements.
C4_SingleModeAllOrNothing ==
    (Done /\ Single /\ Available)
        => /\ failed # {} => (result.status = "raised" /\ result.sizes = <<>>
                              /\ result.d = <<>>)
           /\ result.status = "returned"
                  => (failed = {} /\ runs = 4 /\ \A k \in 1..4 : vals[k] \in Sizes)

W4_SingleModeAbsentMeasurement ==
    /\ Done /\ Single /\ Available
    /\ failed # {}
    /\ runs = 4
    /\ result.exc = "ValueError"

\* C5: the measurer _compress never raises: no call ends with the exception
\* that _compress's own os.stat or os.remove raises.
C5_MeasurerNeverRaises ==
    ~(Done /\ result.status = "raised" /\ result.exc = "FileNotFoundError")

\* C6 as stated: for two empty input files every call ends in an error, in
\* single-compressor mode and in best-of-all mode, whatever sizes are reported.
C6_EmptyInputsAlwaysFail ==
    (Done /\ EmptyInputs) => result.status = "raised"

\* C6 as amended: for two empty input files a best-of-all call always ends in
\* an error; a single-compressor call ends in an error exactly when the family
\* is unavailable, a measurement failed, or the compressed sizes of both files
\* are zero, and otherwise returns the distance of the reported sizes, with a
\* non-zero denominator.
C6_EmptyInputsAmended ==
    (Done /\ EmptyInputs)
        => /\ BestOfAll => result.status = "raised"
           /\ Single => (result.status = "raised"
                            <=> (~Available \/ failed # {}
                                 \/ Max(vals[1], vals[2]) = 0))
           /\ result.status = "returned" => result.d[2] > 0

W6_EmptyInputsBestOfAll ==
    /\ Done /\ EmptyInputs /\ BestOfAll
    /\ runs = 4
    /\ vals[1] > 0
    /\ result.exc = "ZeroDivisionError"

\* C8: a returned distance d is (min(Cxy, Cyx) - min(Cx, Cy)) / max(Cx, Cy)
\* of the finalized sizes; without verbose only d is returned, with verbose
\* the four finalized sizes and d; in single-compressor mode the finalized
\* sizes are the four measured ones.
C8_DistanceFormula ==
    (Done /\ result.status = "returned")
        => /\ Len(result.d) = 2
           /\ result.d[2] > 0
           /\ result.d[1] * Max(best[1], best[2])
                  = (Min(best[3], best[4]) - Min(best[1], best[2])) * result.d[2]
           /\ args.verbose => result.sizes = best
           /\ ~args.verbose => result.sizes = <<>>
           /\ Single => best = vals

W8_VerboseReturn ==
    /\ Done /\ result.status = "returned"
    /\ args.verbose
    /\ best[3] # best[4]
    /\ result.d[1] # 0

\* C10: a call that asks for a family with no binding ends in an error before
\* any measurement step: at no point of the call is a temporary file created,
\* a concatenation made or a compressor invoked, and the filesystem stays as
\* it was.
C10_UnavailableFamilyFailsFirst ==
    (pc # "idle" /\ Single /\ ~Available)
        => /\ Done
           /\ result.status = "raised"
           /\ made = 0
           /\ runs = 0
           /\ fs = base
           /\ input_xy = NoPath
           /\ input_yx = NoPath

W10_UnavailableFamily ==
    /\ Done
    /\ args.compressor = "BZIP2"
    /\ result.exc = "KeyError"

\* the second call of a pair has run, and what relates it to the first
PairDone == Done /\ prev # NoPrev

Swapped ==
    /\ args.input_x = prev.args.input_y
    /\ args.input_y = prev.args.input_x
    /\ args.compressor = prev.args.compressor

SameInputs ==
    /\ args.input_x = prev.args.input_x
    /\ args.input_y = prev.args.input_y

\* C7: with exactly one family available, the best-of-all call and the call
\* that asks for that family end the same way on the same inputs and the same
\* compressor results: both in an error, or both returning the same value.
C7_OneFamilyBestOfAllIsExplicit ==
    (PairDone /\ SameInputs /\ Cardinality(DOMAIN compressor_binary) = 1
     /\ ((BestOfAll /\ prev.args.compressor \in DOMAIN compressor_binary)
         \/ (Available /\ prev.args.compressor = NONE)))
        => Outcome(result) = Outcome(prev.result)

\* C9: against deterministic compressors compute_ncd(A, B) and
\* compute_ncd(B, A) with the same compressor argument end the same way, and
\* when they return, they return the same distance.
C9_Symmetric ==
    (PairDone /\ Swapped)
        => /\ result.status = prev.result.status
           /\ result.d = prev.result.d

W9_SwappedOrderSensitive ==
    /\ PairDone /\ Swapped
    /\ args.input_x # args.input_y
    /\ result.status = "returned"
    /\ prev.result.status = "returned"
    /\ vals[3] # vals[4]
    /\ result.d[1] # 0

(***************************************************************************)
(* The prober on its own: available_compressors() on any host.             *)
(***************************************************************************)
\* every executable the registry names
AllTools == UNION {{KNOWN_COMPRESSORS(n)[k] : k \in 1..Len(KNOWN_COMPRESSORS(n))} : n \in Families}

InitProbe ==
    /\ installed \in SUBSET AllTools
    /\ fs = InitFS
    /\ deterministic = FALSE
    /\ memo = <<>>
    /\ prev = NoPrev
    /\ pc = "idle"
    /\ args = NoArgs
    /\ compressor_binary = <<>>
    /\ best = NoVals
    /\ todo = <<>>
    /\ cur = NONE
    /\ vals = NoVals
    /\ i = 1
    /\ input_xy = NoPath
    /\ input_yx = NoPath
    /\ tmp_path = NoPath
    /\ ret = <<>>
    /\ result = NoResult
    /\ base = InitFS
    /\ made = 0
    /\ runs = 0
    /\ failed = {}
    /\ measured = <<>>

\* a call of available_compressors()
probe ==
    /\ pc = "idle"
    /\ compressor_binary' = available_compressors(installed)
    /\ pc' = "probed"
    /\ UNCHANGED <<installed, fs, deterministic, memo, prev, args, best, todo, cur, vals,
                   i, input_xy, input_yx, tmp_path, ret, result, base, made, runs,
                   failed, measured>>

NextProbe == probe

SpecProbe == InitProbe /\ [][NextProbe]_vars

\* C11: available_compressors() binds each family of the registry to the
\* first of its candidates, in the registry's order, that is installed, and
\* leaves out every family none of whose candidates is installed; with only
\* gzip installed the result is exactly {"LZ77": "gzip"}, and with plzip and
\* lzip both installed LZMA is bound to plzip.
C11_FirstInstalledCandidate ==
    pc = "probed"
        => /\ DOMAIN compressor_binary \subseteq Families
           /\ \A n \in Families :
                  LET tools == KNOWN_COMPRESSORS(n)
                  IN  IF \E k \in 1..Len(tools) : tools[k] \in installed
                      THEN /\ n \in DOMAIN compressor_binary
                           /\ \E k \in 1..Len(tools) :
                                  /\ compressor_binary[n] = tools[k]
                                  /\ tools[k] \in installed
                                  /\ \A j \in 1..(k - 1) : tools[j] \notin installed
                      ELSE n \notin DOMAIN compressor_binary
           /\ installed = {"gzip"} => compressor_binary = [n \in {"LZ77"} |-> "gzip"]
           /\ {"plzip", "lzip"} \subseteq installed => compressor_binary["LZMA"] = "plzip"

W11_PreferredCandidate ==
    /\ pc = "probed"
    /\ {"plzip", "lzip", "static-ppmz"} \subseteq installed
    /\ "ppmz" \notin installed
    /\ compressor_binary["LZMA"] = "plzip"
    /\ compressor_binary["PPMZ"] = "static-ppmz"
    /\ "BZIP2" \notin DOMAIN compressor_binary

\* C12: in best-of-all mode, when every measurement of every available family
\* succeeded, each finalized size is the minimum, component by component, of
\* its initial bound and the sizes the families produced for that component;
\* the bounds are 10*size(x), 10*size(y) and 10*size(x)+10*size(y) for both
\* concatenations, and no finalized size exceeds its bound.
C12_PerComponentMinimum ==
    (BestOfAll /\ pc \in {"distance", "done"} /\ failed = {})
        => LET sx == st_size(fs, args.input_x)
               sy == st_size(fs, args.input_y)
               bound == <<10 * sx, 10 * sy, 10 * sx + 10 * sy, 10 * sx + 10 * sy>>
           IN  /\ DOMAIN measured = DOMAIN compressor_binary
               /\ \A k \in 1..4 :
                      /\ best[k] <= bound[k]
                      /\ \A f \in DOMAIN measured : best[k] <= measured[f][k]
                      /\ \/ best[k] = bound[k]
                         \/ \E f \in DOMAIN measured : best[k] = measured[f][k]

W12_SizesFromDifferentFamilies ==
    /\ Done /\ BestOfAll /\ failed = {}
    /\ result.status = "returned"
    /\ DOMAIN measured = {"LZMA", "LZ77"}
    /\ measured["LZMA"][1] < measured["LZ77"][1]
    /\ measured["LZ77"][3] < measured["LZMA"][3]
    /\ best[1] = measured["LZMA"][1]
    /\ best[3] = measured["LZ77"][3]

====
